---- MODULE Spec2Model ----
(***************************************************************************)
(* A model of the streaming traversal orchestrator `cat` (src/src/cat.rs): *)
(* the setup call (range configuration, resolution of the starting point,  *)
(* priming of the walk) and the lazy stream it returns, driven by a        *)
(* consumer that pulls, waits for block fetches, or drops the stream.      *)
(*                                                                         *)
(* The Resolver, the Block Store and the Walk Capability are collaborators *)
(* of cat; they are modelled from their interface (spec section 4).        *)
(***************************************************************************)
EXTENDS Integers, Sequences, FiniteSets, TLC

(***************************************************************************)
(* Bounds of the model.                                                    *)
(***************************************************************************)
\* how often the consumer polls a stream that has already ended
MaxEndPolls == 1
\* how many blocks of the file may be absent from the block store
MaxMissing == 1
\* how many blocks of the file may hold bytes the decoder rejects
MaxCorrupt == 1

(***************************************************************************)
(* Option values: None, Some(x).                                           *)
(***************************************************************************)
None == <<>>
Some(x) == <<x>>
Unwrap(opt) == opt[1]

Min(a, b) == IF a < b THEN a ELSE b
Max(a, b) == IF a < b THEN b ELSE a

RECURSIVE Reverse(_)
Reverse(s) == IF s = <<>> THEN <<>> ELSE Append(Reverse(Tail(s)), Head(s))

(***************************************************************************)
(* The block universe: content identifiers 1..14 and, for each, the        *)
(* decoded form of its bytes: literal data and child links.                *)
(*   1          an empty file                                              *)
(*   2          a single-block file of 3 bytes                             *)
(*   3 -> 4,5,6 a flat file of three leaves carrying 10, 10 and 5 bytes    *)
(*   7 -> 8,11; 8 -> 9,10   a nested file of 5 bytes                       *)
(*   12 -> 13   a root carrying 2 literal bytes and one link               *)
(*   14         a block that is no file encoding                           *)
(***************************************************************************)
File(data, links) == [kind |-> "file", data |-> data, links |-> links]

Blocks ==
  << File(<< >>, << >>),
     File(<<21, 22, 23>>, << >>),
     File(<< >>, <<4, 5, 6>>),
     File(<<30, 31, 32, 33, 34, 35, 36, 37, 38, 39>>, << >>),
     File(<<40, 41, 42, 43, 44, 45, 46, 47, 48, 49>>, << >>),
     File(<<50, 51, 52, 53, 54>>, << >>),
     File(<< >>, <<8, 11>>),
     File(<< >>, <<9, 10>>),
     File(<<71, 72>>, << >>),
     File(<<73>>, << >>),
     File(<<74, 75>>, << >>),
     File(<<81, 82>>, <<13>>),
     File(<<83, 84>>, << >>),
     [kind |-> "other", data |-> << >>, links |-> << >>] >>

Cids == DOMAIN Blocks
Roots == {1, 2, 3, 7, 12, 14}
\* bytes the decoder cannot interpret
Garbage == [kind |-> "garbage", data |-> << >>, links |-> << >>]

\* the logical content of the file rooted at a block: its literal bytes, then
\* the content of its links, left to right
RECURSIVE Content(_), ContentOfLinks(_)
Content(c) == Blocks[c].data \o ContentOfLinks(Blocks[c].links)
ContentOfLinks(ls) ==
  IF ls = <<>> THEN <<>> ELSE Content(Head(ls)) \o ContentOfLinks(Tail(ls))

Size(c) == Len(Content(c))

RECURSIVE Reach(_), ReachOfLinks(_)
Reach(c) == {c} \cup ReachOfLinks(Blocks[c].links)
ReachOfLinks(ls) ==
  IF ls = <<>> THEN {} ELSE Reach(Head(ls)) \cup ReachOfLinks(Tail(ls))

\* RangeSpec values offered to cat: half-open [start, end), start < end
Ranges == {<<0, 2>>, <<1, 3>>, <<2, 5>>, <<5, 20>>, <<10, 11>>, <<24, 30>>, <<30, 40>>}
OptRanges == {None} \cup {Some(r) : r \in Ranges}

\* the file's bytes in [start, min(end, fileLength))
FileRange(c, rng) ==
  IF rng = None THEN Content(c)
  ELSE SubSeq(Content(c), Unwrap(rng)[1] + 1, Min(Unwrap(rng)[2], Size(c)))

(***************************************************************************)
(* The Walk Capability: IdleFileVisit and FileVisit.  A pending entry is a *)
(* link together with the file offsets [lo, hi) its subtree covers; the    *)
(* entry needed next is the last one of `pending`.                         *)
(***************************************************************************)
IdleFileVisit_default == [range |-> None]

with_target_range(v, r) == [v EXCEPT !.range = Some(r)]

RECURSIVE LinkEntries(_, _)
LinkEntries(ls, base) ==
  IF ls = <<>> THEN <<>>
  ELSE <<[link |-> Head(ls), lo |-> base, hi |-> base + Size(Head(ls))]>>
         \o LinkEntries(Tail(ls), base + Size(Head(ls)))

\* range pruning: does [lo, hi) overlap the target range
block_is_in_target_range(lo, hi, rng) ==
  rng = None \/ (lo < Unwrap(rng)[2] /\ Unwrap(rng)[1] < hi)

\* the part of `content`, which sits at file offset lo, inside the target range
maybe_target_slice(content, lo, rng) ==
  IF rng = None THEN content
  ELSE SubSeq(content, Max(Unwrap(rng)[1], lo) - lo + 1,
                       Min(Unwrap(rng)[2], lo + Len(content)) - lo)

\* file offset of the first byte of that slice
ChunkOff(lo, rng) == IF rng = None THEN lo ELSE Max(lo, Unwrap(rng)[1])

PendingOf(data, base, rng) ==
  Reverse(SelectSeq(LinkEntries(data.links, base),
                    LAMBDA e : block_is_in_target_range(e.lo, e.hi, rng)))

\* start(rootBytes) -> (leadingChunk, Option<VisitorState>), or a decode error
start(idle, data) ==
  IF data.kind # "file"
  THEN [ok |-> FALSE, bytes |-> <<>>, visit |-> None]
  ELSE LET pending == PendingOf(data, Len(data.data), idle.range)
       IN [ok    |-> TRUE,
           bytes |-> maybe_target_slice(data.data, 0, idle.range),
           visit |-> IF pending = <<>> THEN None
                     ELSE Some([pending |-> pending, range |-> idle.range])]

\* pendingLinks(state) -> the identifier required next
pending_links(v) == v.pending[Len(v.pending)].link

\* continueWalk(state, childBytes, cache) -> (chunk, Option<VisitorState>), or
\* a decode error; the cache is handed back once the walk has completed
continue_walk(v, data, c) ==
  IF data.kind # "file"
  THEN [ok |-> FALSE, bytes |-> <<>>, off |-> 0, visit |-> None, cache |-> c]
  ELSE LET top     == v.pending[Len(v.pending)]
           rest    == SubSeq(v.pending, 1, Len(v.pending) - 1)
           pending == rest \o PendingOf(data, top.lo + Len(data.data), v.range)
       IN [ok    |-> TRUE,
           bytes |-> maybe_target_slice(data.data, top.lo, v.range),
           off   |-> ChunkOff(top.lo, v.range),
           visit |-> IF pending = <<>> THEN None
                     ELSE Some([pending |-> pending, range |-> v.range]),
           cache |-> IF pending = <<>> THEN Some("links") ELSE c]

(***************************************************************************)
(* State.  Every cat operation o has its own copy of the locals of cat.    *)
(***************************************************************************)
Ops == {1, 2}

VARIABLES
  store,           \* Block Store: the identifiers it can deliver
  corrupt,         \* Block Store: the identifiers whose bytes do not decode
  starting_point,  \* argument: [kind: "path" | "block", root: identifier]
  range,           \* argument: Option<Range>
  pc,              \* where the operation stands (see below)
  ret,             \* what the setup call returned: None until it returns
  visit,           \* Option<FileVisit>: the current VisitorState
  bytes,           \* Option<Vec<u8>>: the captured leading chunk
  cache,           \* the DecodeCache
  next,            \* the identifier asked of get_block
  next_visit,      \* the VisitorState returned by continue_walk, held
                   \* across the yield of its chunk
  inflight,        \* get_block requests the Block Store is working on
  got,             \* Option: the outcome of get_block, not yet consumed
  pulling,         \* the consumer is inside a pull that has no item yet
  endPolls,        \* polls of the stream after it ended
  log              \* history: the calls made and the items delivered

vars == <<store, corrupt, starting_point, range, pc, ret, visit, bytes, cache,
          next, next_visit, inflight, got, pulling, endPolls, log>>

(***************************************************************************)
(* pc: "Unused"  no such operation in this run                             *)
(*     "Init"  cat not called yet; "Resolving"  awaiting dag.resolve;      *)
(*     "SetupErr"  the setup call returned Err;                            *)
(*     "Created"  the stream was returned and never polled;                *)
(*     "YieldLead", "YieldChunk", "YieldLoadErr", "YieldWalkErr"           *)
(*       suspended at the yield of line 66, 95, 86, 104;                   *)
(*     "Await"  suspended at the get_block await of line 83;               *)
(*     "Done"  the generator returned; "Dropped"  the consumer dropped it. *)
(***************************************************************************)
HasStream == {"Created", "YieldLead", "YieldChunk", "YieldLoadErr",
              "YieldWalkErr", "Await", "Done"}
Suspended == {"Created", "YieldLead", "YieldChunk", "YieldLoadErr", "YieldWalkErr"}

Ev(ev, id, bs, off, err) ==
  [ev |-> ev, id |-> id, bytes |-> bs, off |-> off, err |-> err]
Call_(ev, id) == Ev(ev, id, <<>>, 0, "")
YieldOk(bs, off, id) == Ev("yield_ok", id, bs, off, "")
YieldErr(err, id) == Ev("yield_err", id, <<>>, 0, err)

\* the locals of operation o
Local(o) ==
  [starting_point |-> starting_point[o], range |-> range[o], pc |-> pc[o],
   ret |-> ret[o], visit |-> visit[o], bytes |-> bytes[o], cache |-> cache[o],
   next |-> next[o], next_visit |-> next_visit[o], inflight |-> inflight[o],
   got |-> got[o], pulling |-> pulling[o], endPolls |-> endPolls[o],
   log |-> log[o]]

\* mutant of Set: the DecodeCache is one value shared by all operations
Set_shared_cache(o, l) ==
  /\ pc' = [pc EXCEPT ![o] = l.pc]
  /\ ret' = [ret EXCEPT ![o] = l.ret]
  /\ visit' = [visit EXCEPT ![o] = l.visit]
  /\ bytes' = [bytes EXCEPT ![o] = l.bytes]
  /\ cache' = [p \in Ops |-> l.cache]
  /\ next' = [next EXCEPT ![o] = l.next]
  /\ next_visit' = [next_visit EXCEPT ![o] = l.next_visit]
  /\ inflight' = [inflight EXCEPT ![o] = l.inflight]
  /\ got' = [got EXCEPT ![o] = l.got]
  /\ pulling' = [pulling EXCEPT ![o] = l.pulling]
  /\ endPolls' = [endPolls EXCEPT ![o] = l.endPolls]
  /\ log' = [log EXCEPT ![o] = l.log]
  /\ UNCHANGED <<store, corrupt, starting_point, range>>

Set(o, l) ==
  /\ pc' = [pc EXCEPT ![o] = l.pc]
  /\ ret' = [ret EXCEPT ![o] = l.ret]
  /\ visit' = [visit EXCEPT ![o] = l.visit]
  /\ bytes' = [bytes EXCEPT ![o] = l.bytes]
  /\ cache' = [cache EXCEPT ![o] = l.cache]
  /\ next' = [next EXCEPT ![o] = l.next]
  /\ next_visit' = [next_visit EXCEPT ![o] = l.next_visit]
  /\ inflight' = [inflight EXCEPT ![o] = l.inflight]
  /\ got' = [got EXCEPT ![o] = l.got]
  /\ pulling' = [pulling EXCEPT ![o] = l.pulling]
  /\ endPolls' = [endPolls EXCEPT ![o] = l.endPolls]
  /\ log' = [log EXCEPT ![o] = l.log]
  /\ UNCHANGED <<store, corrupt, starting_point, range>>

(***************************************************************************)
(* The Block Store and the Resolver.                                       *)
(***************************************************************************)
\* the bytes stored under an identifier
StoreData(st, cor, c) == IF c \in cor THEN Garbage ELSE Blocks[c]

\* get_block(id): the block, or a fetch error
get_block(st, cor, id) ==
  IF id \in st THEN [ok |-> TRUE, cid |-> id, data |-> StoreData(st, cor, id)]
  ELSE [ok |-> FALSE, cid |-> id, data |-> Garbage]

\* dag.resolve(path, true): the root block, or a resolution error
resolve(st, cor, path) == get_block(st, cor, path)

\* ResolvedNode::into_unixfs_block: only a block of the file codec passes
into_unixfs_block(c) == Blocks[c].kind = "file"

(***************************************************************************)
(* cat, the setup call (cat.rs lines 18-63), as steps on the locals.       *)
(***************************************************************************)
SetupErr(l, err, id) ==
  [l EXCEPT !.pc = "SetupErr",
            !.ret = Some([ok |-> FALSE, err |-> err, id |-> id]),
            !.log = Append(@, Ev("setup_err", id, <<>>, 0, err))]

\* mutant of idle_visit: the range is never applied to the visit
idle_visit_norange(l) == IdleFileVisit_default

\* lines 18-21: the visit, with the range applied when there is one
idle_visit(l) ==
  IF l.range # None
  THEN with_target_range(IdleFileVisit_default, Unwrap(l.range))
  ELSE IdleFileVisit_default

\* mutant of prime: a failure of start is reported as a Loading error
prime_wrong_err(l, cid, data) ==
  LET r  == start(idle_visit(l), data)
      l1 == [l EXCEPT !.log = Append(@, Call_("start", cid))]
  IN IF r.ok
     THEN [l1 EXCEPT !.pc = "Created",
                     !.cache = None,
                     !.visit = r.visit,
                     !.bytes = IF r.bytes # <<>> THEN Some(r.bytes) ELSE None,
                     !.ret = Some([ok |-> TRUE, err |-> "", id |-> cid]),
                     !.log = Append(@, Call_("setup_ok", cid))]
     ELSE SetupErr(l1, "Loading", cid)

\* mutant of prime: the leading chunk is captured even when it is empty
prime_keep_empty(l, cid, data) ==
  LET r  == start(idle_visit(l), data)
      l1 == [l EXCEPT !.log = Append(@, Call_("start", cid))]
  IN IF r.ok
     THEN [l1 EXCEPT !.pc = "Created",
                     !.cache = None,
                     !.visit = r.visit,
                     !.bytes = Some(r.bytes),
                     !.ret = Some([ok |-> TRUE, err |-> "", id |-> cid]),
                     !.log = Append(@, Call_("setup_ok", cid))]
     ELSE SetupErr(l1, "Walking", cid)

\* mutant of prime: the setup call already asks for the first link and
\* issues its fetch
prime_eager(l, cid, data) ==
  LET r  == start(idle_visit(l), data)
      l1 == [l EXCEPT !.log = Append(@, Call_("start", cid))]
      l2 == [l1 EXCEPT !.pc = "Created",
                       !.cache = None,
                       !.visit = r.visit,
                       !.bytes = IF r.bytes # <<>> THEN Some(r.bytes) ELSE None,
                       !.ret = Some([ok |-> TRUE, err |-> "", id |-> cid]),
                       !.log = Append(@, Call_("setup_ok", cid))]
  IN IF ~r.ok THEN SetupErr(l1, "Walking", cid)
     ELSE IF r.visit = None THEN l2
     ELSE [l2 EXCEPT !.next = pending_links(Unwrap(r.visit)),
                     !.inflight = {pending_links(Unwrap(r.visit))},
                     !.log = @ \o <<Call_("pending_links", pending_links(Unwrap(r.visit))),
                                    Call_("get_block", pending_links(Unwrap(r.visit)))>>]

\* lines 40-63: start the visit from the root block; return the stream
prime(l, cid, data) ==
  LET r  == start(idle_visit(l), data)
      l1 == [l EXCEPT !.log = Append(@, Call_("start", cid))]
  IN IF r.ok
     THEN [l1 EXCEPT !.pc = "Created",
                     !.cache = None,
                     !.visit = r.visit,
                     !.bytes = IF r.bytes # <<>> THEN Some(r.bytes) ELSE None,
                     !.ret = Some([ok |-> TRUE, err |-> "", id |-> cid]),
                     !.log = Append(@, Call_("setup_ok", cid))]
     ELSE SetupErr(l1, "Walking", cid)

\* lines 25-38, up to the await of dag.resolve
call(l, st, cor) ==
  IF l.starting_point.kind = "path"
  THEN [l EXCEPT !.pc = "Resolving",
                 !.log = Append(@, Call_("resolve", l.starting_point.root))]
  ELSE prime(l, l.starting_point.root,
             StoreData(st, cor, l.starting_point.root))

\* mutant of resolved: the resolved block is not checked to be a file
resolved_no_typecheck(l, r) ==
  IF ~r.ok THEN SetupErr(l, "Resolving", r.cid)
  ELSE prime(l, r.cid, r.data)

\* mutant of resolved: the outcome of dag.resolve is used without looking at
\* its error
resolved_unchecked(l, r) ==
  IF ~into_unixfs_block(r.cid) THEN SetupErr(l, "Path", r.cid)
  ELSE prime(l, r.cid, r.data)

\* lines 29-38, from the completion of dag.resolve
resolved(l, r) ==
  IF ~r.ok THEN SetupErr(l, "Resolving", r.cid)
  ELSE IF ~into_unixfs_block(r.cid) THEN SetupErr(l, "Path", r.cid)
  ELSE prime(l, r.cid, r.data)

(***************************************************************************)
(* The stream (cat.rs lines 63-109): the generator runs inside a poll, from *)
(* the point where it was suspended to its next yield, await or return.    *)
(***************************************************************************)
yield(l, at, item) ==
  [l EXCEPT !.pc = at, !.pulling = FALSE, !.log = Append(@, item)]

\* `return`: the stream ends, the locals are dropped
return(l) ==
  [l EXCEPT !.pc = "Done", !.pulling = FALSE, !.visit = None,
            !.next_visit = None, !.cache = None,
            !.log = Append(@, Call_("end", 0))]

\* mutant of loop_top: every pending link is requested at once and the
\* first block to arrive is taken
loop_top_prefetch(l) ==
  LET v  == Unwrap(l.visit)
      id == pending_links(v)
  IN [l EXCEPT !.pc = "Await", !.pulling = TRUE, !.next = id,
               !.inflight = @ \cup {v.pending[i].link : i \in DOMAIN v.pending},
               !.log = @ \o <<Call_("pending_links", id), Call_("get_block", id)>>]

\* mutant of loop_top: the generator suspends without any request having
\* been handed to the Block Store
loop_top_nofetch(l) ==
  LET id == pending_links(Unwrap(l.visit))
  IN [l EXCEPT !.pc = "Await", !.pulling = TRUE, !.next = id,
               !.log = @ \o <<Call_("pending_links", id), Call_("get_block", id)>>]

\* mutant of loop_top: the block fetched is the oldest pending link, not the
\* one pending_links names
loop_top_wrong(l) ==
  LET v  == Unwrap(l.visit)
      id == pending_links(v)
  IN [l EXCEPT !.pc = "Await", !.pulling = TRUE, !.next = v.pending[1].link,
               !.inflight = @ \cup {v.pending[1].link},
               !.log = @ \o <<Call_("pending_links", id),
                              Call_("get_block", v.pending[1].link)>>]

\* lines 80-83: ask for the next link, issue the fetch, suspend on it
loop_top(l) ==
  LET id == pending_links(Unwrap(l.visit))
  IN [l EXCEPT !.pc = "Await", !.pulling = TRUE, !.next = id,
               !.inflight = @ \cup {id},
               !.log = @ \o <<Call_("pending_links", id), Call_("get_block", id)>>]

\* lines 69-72
after_lead(l) == IF l.visit = None THEN return(l) ELSE loop_top(l)

\* mutant of from_start: the captured leading chunk is never yielded
from_start_skip(l) == after_lead([l EXCEPT !.bytes = None])

\* lines 65-67
from_start(l) ==
  IF l.bytes # None
  THEN yield([l EXCEPT !.bytes = None], "YieldLead",
             YieldOk(Unwrap(l.bytes), ChunkOff(0, l.range), 0))
  ELSE after_lead(l)

\* lines 98-101, resumed after the yield of line 95
after_chunk(l) ==
  IF l.next_visit = None THEN return(l)
  ELSE loop_top([l EXCEPT !.visit = l.next_visit, !.next_visit = None])

\* mutant of walk: a block that does not decode ends the stream without an
\* error item
walk_swallow(l, cid, data) ==
  LET r  == continue_walk(Unwrap(l.visit), data, l.cache)
      l1 == [l EXCEPT !.visit = None, !.cache = r.cache,
                      !.log = Append(@, Call_("continue_walk", cid))]
  IN IF ~r.ok THEN return(l1)
     ELSE IF r.bytes # <<>>
     THEN yield([l1 EXCEPT !.next_visit = r.visit], "YieldChunk",
                YieldOk(r.bytes, r.off, cid))
     ELSE after_chunk([l1 EXCEPT !.next_visit = r.visit])

\* mutant of walk: the VisitorState is not replaced by the returned one
walk_keep(l, cid, data) ==
  LET r  == continue_walk(Unwrap(l.visit), data, l.cache)
      l1 == [l EXCEPT !.visit = None, !.cache = r.cache,
                      !.log = Append(@, Call_("continue_walk", cid))]
  IN IF ~r.ok THEN yield(l1, "YieldWalkErr", YieldErr("Walking", cid))
     ELSE IF r.bytes # <<>>
     THEN yield([l1 EXCEPT !.next_visit = l.visit], "YieldChunk",
                YieldOk(r.bytes, r.off, cid))
     ELSE after_chunk([l1 EXCEPT !.next_visit = r.visit])

\* mutant of walk: the fetch of the next link is issued together with the
\* yield of a chunk, before the consumer asks for more
walk_eager(l, cid, data) ==
  LET r  == continue_walk(Unwrap(l.visit), data, l.cache)
      l1 == [l EXCEPT !.visit = None, !.cache = r.cache,
                      !.log = Append(@, Call_("continue_walk", cid))]
  IN IF ~r.ok THEN yield(l1, "YieldWalkErr", YieldErr("Walking", cid))
     ELSE IF r.bytes # <<>>
     THEN LET y == yield([l1 EXCEPT !.next_visit = r.visit], "YieldChunk",
                         YieldOk(r.bytes, r.off, cid))
          IN IF r.visit = None THEN y
             ELSE [y EXCEPT !.inflight = @ \cup {pending_links(Unwrap(r.visit))},
                            !.log = Append(@, Call_("get_block",
                                                    pending_links(Unwrap(r.visit))))]
     ELSE after_chunk([l1 EXCEPT !.next_visit = r.visit])

\* mutant of walk: the chunk is yielded without looking whether it is empty
walk_yield_empty(l, cid, data) ==
  LET r  == continue_walk(Unwrap(l.visit), data, l.cache)
      l1 == [l EXCEPT !.visit = None, !.cache = r.cache,
                      !.log = Append(@, Call_("continue_walk", cid))]
  IN IF ~r.ok THEN yield(l1, "YieldWalkErr", YieldErr("Walking", cid))
     ELSE yield([l1 EXCEPT !.next_visit = r.visit], "YieldChunk",
                YieldOk(r.bytes, r.off, cid))

\* lines 91-107: apply the fetched block
walk(l, cid, data) ==
  LET r  == continue_walk(Unwrap(l.visit), data, l.cache)
      l1 == [l EXCEPT !.visit = None, !.cache = r.cache,
                      !.log = Append(@, Call_("continue_walk", cid))]
  IN IF ~r.ok THEN yield(l1, "YieldWalkErr", YieldErr("Walking", cid))
     ELSE IF r.bytes # <<>>
     THEN yield([l1 EXCEPT !.next_visit = r.visit], "YieldChunk",
                YieldOk(r.bytes, r.off, cid))
     ELSE after_chunk([l1 EXCEPT !.next_visit = r.visit])

\* mutant of fetched: a failed fetch is tried again
fetched_retry(l, b) ==
  IF b.ok THEN walk(l, b.cid, b.data)
  ELSE loop_top(l)

\* mutant of fetched: a failed fetch ends the stream without an error item
fetched_swallow(l, b) ==
  IF b.ok THEN walk(l, b.cid, b.data)
  ELSE return(l)

\* lines 83-89, resumed with the outcome of get_block
fetched(l, b) ==
  IF b.ok THEN walk(l, b.cid, b.data)
  ELSE yield(l, "YieldLoadErr", YieldErr("Loading", l.next))

\* mutant of poll: no `return` after the yield of the Loading error, the loop
\* goes on
poll_noreturn(l) ==
  LET l1 == [l EXCEPT !.log = Append(@, Call_("pull", 0))]
  IN CASE l.pc = "Created" -> from_start(l1)
       [] l.pc = "YieldLead" -> after_lead(l1)
       [] l.pc = "YieldChunk" -> after_chunk(l1)
       [] l.pc = "YieldLoadErr" -> loop_top(l1)
       [] l.pc = "YieldWalkErr" -> return(l1)
       [] l.pc = "Done" -> [l1 EXCEPT !.endPolls = @ + 1,
                                      !.log = Append(@, Call_("end", 0))]

\* one poll by the consumer of a stream that is not waiting for a block
poll(l) ==
  LET l1 == [l EXCEPT !.log = Append(@, Call_("pull", 0))]
  IN CASE l.pc = "Created" -> from_start(l1)
       [] l.pc = "YieldLead" -> after_lead(l1)
       [] l.pc = "YieldChunk" -> after_chunk(l1)
       [] l.pc \in {"YieldLoadErr", "YieldWalkErr"} -> return(l1)
       [] l.pc = "Done" -> [l1 EXCEPT !.endPolls = @ + 1,
                                      !.log = Append(@, Call_("end", 0))]

\* the consumer discards the stream (or the setup future): everything the
\* operation holds is released, the fetch it awaits is abandoned
dropped(l) ==
  [l EXCEPT !.pc = "Dropped", !.pulling = FALSE, !.visit = None,
            !.next_visit = None, !.bytes = None, !.cache = None,
            !.inflight = {}, !.got = None,
            !.log = Append(@, Call_("drop", 0))]

(***************************************************************************)
(* Actions.                                                                *)
(***************************************************************************)
\* the consumer calls cat and polls the setup future
Call(o) ==
  /\ pc[o] = "Init"
  /\ Set(o, call(Local(o), store, corrupt))

\* dag.resolve completes and the setup call runs on to its return
ResolveDone(o) ==
  /\ pc[o] = "Resolving"
  /\ Set(o, resolved(Local(o), resolve(store, corrupt, starting_point[o].root)))

\* the consumer pulls the next item
Pull(o) ==
  /\ pc[o] \in Suspended \/ (pc[o] = "Done" /\ endPolls[o] < MaxEndPolls)
  /\ ~pulling[o]
  /\ Set(o, poll(Local(o)))

\* the Block Store completes a request
FetchComplete(o) ==
  /\ \E id \in inflight[o] :
       Set(o, [Local(o) EXCEPT
                 !.inflight = @ \ {id},
                 !.got = Some(get_block(store, corrupt, id)),
                 !.log = Append(@, Call_("get_block_done", id))])

\* the waiting pull is woken and the generator resumes after the await
Resume(o) ==
  /\ pc[o] = "Await"
  /\ got[o] # None
  /\ \E l \in {fetched([Local(o) EXCEPT !.got = None], Unwrap(got[o]))} :
       Set(o, l)

\* the consumer drops the stream, or the setup future it is awaiting
Drop(o) ==
  /\ pc[o] \in HasStream \cup {"Resolving"}
  /\ Set(o, dropped(Local(o)))

Inputs == [kind : {"path", "block"}, root : Roots]

\* the stores a run may face: of the blocks of the files read, at most
\* MaxMissing are absent and at most MaxCorrupt are undecodable
Stores(files) ==
  {e \in [missing : SUBSET files, corrupt : SUBSET files] :
      /\ Cardinality(e.missing) <= MaxMissing
      /\ Cardinality(e.corrupt) <= MaxCorrupt}

InitVars(sp, rg, e) ==
  /\ store = Cids \ e.missing
  /\ corrupt = e.corrupt
  /\ starting_point = sp
  /\ range = rg
  /\ pc \in [Ops -> {"Init", "Unused"}]
  /\ ret = [o \in Ops |-> None]
  /\ visit = [o \in Ops |-> None]
  /\ bytes = [o \in Ops |-> None]
  /\ cache = [o \in Ops |-> None]
  /\ next = [o \in Ops |-> 0]
  /\ next_visit = [o \in Ops |-> None]
  /\ inflight = [o \in Ops |-> {}]
  /\ got = [o \in Ops |-> None]
  /\ pulling = [o \in Ops |-> FALSE]
  /\ endPolls = [o \in Ops |-> 0]
  /\ log = [o \in Ops |-> <<>>]

\* one cat operation
Init ==
  \E in \in Inputs, rg \in OptRanges :
    \E e \in Stores(Reach(in.root)) :
      /\ InitVars([o \in Ops |-> in], [o \in Ops |-> rg], e)
      /\ pc = [o \in Ops |-> IF o = 1 THEN "Init" ELSE "Unused"]

Next ==
  \E o \in Ops :
    \/ Call(o)
    \/ ResolveDone(o)
    \/ Pull(o)
    \/ FetchComplete(o)
    \/ Resume(o)
    \/ Drop(o)

Spec == Init /\ [][Next]_vars

\* one cat operation whose consumer keeps pulling (main.rs reads until the
\* stream ends), whose fetches complete, and whose waiting pull is polled
\* again once its block has arrived; the consumer may still drop the stream
Fairness ==
  /\ WF_vars(Pull(1))
  /\ WF_vars(FetchComplete(1))
  /\ WF_vars(Resume(1))

SpecLive == Init /\ [][Next]_vars /\ Fairness

\* two cat operations given the same starting point and range, run against
\* the same block store
InitPair ==
  \E in \in Inputs, rg \in OptRanges :
    \E e \in Stores(Reach(in.root)) :
      /\ InitVars([o \in Ops |-> in], [o \in Ops |-> rg], e)
      /\ pc = [o \in Ops |-> "Init"]

SpecPair == InitPair /\ [][Next]_vars

\* two concurrent cat operations on files of their own (or on the same
\* file), each with its own range, against one block store whose faults
\* lie in the file of the first
ConcInputs ==
  {<<[kind |-> k, root |-> r1], [kind |-> "block", root |-> r2]>> :
     k \in {"path", "block"}, r1 \in {7, 12}, r2 \in {12}}
ConcRanges == {<<None, rg>> : rg \in {None, Some(<<1, 3>>)}}

InitConc ==
  \E in \in ConcInputs, rg \in ConcRanges :
    \E e \in Stores(Reach(in[1].root)) :
      /\ InitVars(in, rg, e)
      /\ pc = [o \in Ops |-> "Init"]

SpecConc == InitConc /\ [][Next]_vars

(***************************************************************************)
(* What the consumer and the collaborators observed of operation o.        *)
(***************************************************************************)
IsItem(e) == e.ev \in {"yield_ok", "yield_err"}
IsOk(e) == e.ev = "yield_ok"
IsErr(e) == e.ev = "yield_err"

\* the items the stream delivered, in order
Items(o) == SelectSeq(log[o], IsItem)
Oks(o) == SelectSeq(log[o], IsOk)
Errs(o) == SelectSeq(log[o], IsErr)

\* positions of the log holding an event of the given kind
At(o, ev) == {i \in DOMAIN log[o] : log[o][i].ev = ev}
Count(o, ev) == Cardinality(At(o, ev))

RECURSIVE Concat(_)
Concat(chunks) ==
  IF chunks = <<>> THEN <<>> ELSE Head(chunks).bytes \o Concat(Tail(chunks))

IsPrefix(s, t) == Len(s) <= Len(t) /\ s = SubSeq(t, 1, Len(s))

Root(o) == starting_point[o].root

\* the stream ended without an error item
CleanEnd(o) == pc[o] = "Done" /\ Errs(o) = <<>>

(***************************************************************************)
(* C1.  A stream pulled to its end terminates in exactly one of two ways:  *)
(* a clean end, or exactly one Err item.  The items are a run of Ok chunks *)
(* followed by at most one Err, which is then the last item; once the      *)
(* stream has ended it delivers nothing more, and a stream that has ended  *)
(* holds no fetch and no VisitorState.                                     *)
(***************************************************************************)
C1_OneTerminalOutcome ==
  \A o \in Ops :
    LET it == Items(o) IN
      /\ Len(Errs(o)) <= 1
      /\ \A i \in DOMAIN it : IsErr(it[i]) => i = Len(it)
      /\ \A i \in At(o, "end") : \A j \in DOMAIN log[o] :
           j > i => ~IsItem(log[o][j])
      /\ pc[o] \in {"YieldLoadErr", "YieldWalkErr"} => Len(Errs(o)) = 1
      /\ pc[o] = "Done" =>
           /\ ~pulling[o] /\ inflight[o] = {} /\ got[o] = None
           /\ visit[o] = None /\ next_visit[o] = None
           /\ Count(o, "end") >= 1
           /\ (Len(Errs(o)) = 1) # CleanEnd(o)

\* a stream that ended after delivering its one terminal error
C1_Witness ==
  /\ pc[1] = "Done"
  /\ Len(Errs(1)) = 1
  /\ Len(Oks(1)) >= 1
  /\ endPolls[1] = MaxEndPolls

(***************************************************************************)
(* C2.  Without a range, when the stream ends cleanly, the Ok chunks in    *)
(* yield order concatenate to the entire content of the file.              *)
(***************************************************************************)
C2_WholeFile ==
  \A o \in Ops :
    (CleanEnd(o) /\ range[o] = None) => Concat(Oks(o)) = Content(Root(o))

\* the file with a leading chunk and a continuation chunk, read whole
C2_Witness ==
  /\ CleanEnd(1) /\ range[1] = None
  /\ Root(1) = 12
  /\ Len(Oks(1)) = 2
  /\ Count(1, "continue_walk") = 1

(***************************************************************************)
(* C3.  With a range [start, end), the Ok chunks yielded so far always     *)
(* concatenate to a prefix of the file's bytes in                          *)
(* [start, min(end, fileLength)), and to exactly those bytes once the      *)
(* stream has ended cleanly.                                               *)
(***************************************************************************)
C3_RangeBytes ==
  \A o \in Ops :
    range[o] # None =>
      /\ IsPrefix(Concat(Oks(o)), FileRange(Root(o), range[o]))
      /\ CleanEnd(o) => Concat(Oks(o)) = FileRange(Root(o), range[o])

\* bytes [5, 20) of the flat file of 25 bytes
C3_Witness ==
  /\ CleanEnd(1) /\ range[1] = Some(<<5, 20>>)
  /\ Root(1) = 3
  /\ Len(Concat(Oks(1))) = 15
  /\ Len(Oks(1)) = 2

(***************************************************************************)
(* C4.  The Ok chunks yielded so far are in strictly increasing offset     *)
(* order, each starting where the one before it ended, each holding the    *)
(* file's bytes at its offset: no gap, no overlap, no chunk yielded twice. *)
(***************************************************************************)
C4_OrderedChunks ==
  \A o \in Ops :
    LET ok == Oks(o) IN
      /\ \A i \in DOMAIN ok :
           /\ ok[i].bytes # <<>>
           /\ ok[i].bytes =
                SubSeq(Content(Root(o)), ok[i].off + 1, ok[i].off + Len(ok[i].bytes))
      /\ \A i \in 1 .. Len(ok) - 1 :
           /\ ok[i].off < ok[i + 1].off
           /\ ok[i + 1].off = ok[i].off + Len(ok[i].bytes)

\* three chunks of the nested file, delivered in order
C4_Witness ==
  /\ Root(1) = 7
  /\ Len(Oks(1)) = 3
  /\ Oks(1)[3].off = 3

(***************************************************************************)
(* C5.  The k-th fetch of an operation fails.                              *)
(***************************************************************************)
\* the chunks, empty ones included, that the first n steps of the walk return
RECURSIVE StepChunks(_, _)
StepChunks(v, n) ==
  IF n = 0 \/ v = None THEN <<>>
  ELSE LET r == continue_walk(Unwrap(v), Blocks[pending_links(Unwrap(v))], None)
       IN <<r.bytes>> \o StepChunks(r.visit, n - 1)

\* the chunks that start and the first n steps return for operation o
ExpectedChunks(o, n) ==
  LET i == IF range[o] # None
           THEN with_target_range(IdleFileVisit_default, Unwrap(range[o]))
           ELSE IdleFileVisit_default
      r == start(i, Blocks[Root(o)])
  IN <<r.bytes>> \o StepChunks(r.visit, n)

NonEmpty(b) == b # <<>>

\* a get_block of o failed and the pull waiting for it went on
FetchFailed(o) ==
  /\ pc[o] \in {"YieldLoadErr", "YieldWalkErr", "YieldChunk", "Done"}
  /\ \E i \in At(o, "get_block_done") : log[o][i].id \notin store

\* C5 as stated: if the k-th fetch fails, exactly k-1 Ok chunks precede a
\* single Err(Loading) item, and nothing follows it
C5_Original ==
  \A o \in Ops :
    FetchFailed(o) =>
      LET k == Count(o, "get_block") IN
        /\ Len(Oks(o)) = k - 1
        /\ Items(o) = Append(Oks(o), YieldErr("Loading", next[o]))

\* C5 amended: if the k-th fetch fails, the Ok chunks that precede the single
\* Err(Loading) item are exactly the non-empty ones among the leading chunk
\* and the chunks of the k-1 steps before it (at most k chunks); the item
\* names the identifier asked for, and nothing follows it
C5_Amended ==
  \A o \in Ops :
    FetchFailed(o) =>
      LET k == Count(o, "get_block") IN
        /\ [i \in DOMAIN Oks(o) |-> Oks(o)[i].bytes]
             = SelectSeq(ExpectedChunks(o, k - 1), NonEmpty)
        /\ Len(Oks(o)) <= k
        /\ Items(o) = Append(Oks(o), YieldErr("Loading", next[o]))
        /\ next[o] \notin store

\* the third fetch of the nested file fails after a single chunk
C5_Witness ==
  /\ FetchFailed(1)
  /\ Root(1) = 7
  /\ Count(1, "get_block") = 3
  /\ Len(Oks(1)) = 1
  /\ pc[1] = "Done"

(***************************************************************************)
(* C6.  No fetch without a pull.  Every get_block is issued inside a pull  *)
(* that has not delivered its item yet; while the consumer is not pulling, *)
(* or after it dropped the stream, no request is outstanding; and every    *)
(* fetch issued so far was consumed by the items delivered so far.         *)
(***************************************************************************)
C6_NoPrefetch ==
  \A o \in Ops :
    /\ \A j \in At(o, "get_block") :
         \E i \in At(o, "pull") :
           /\ i < j
           /\ \A k \in (i + 1) .. (j - 1) :
                log[o][k].ev \notin {"yield_ok", "yield_err", "end", "drop", "pull"}
    /\ ~pulling[o] => (inflight[o] = {} /\ got[o] = None)
    /\ (~pulling[o] /\ pc[o] # "Dropped") =>
         \A j \in At(o, "get_block") :
           \E k \in DOMAIN log[o] :
             /\ k > j
             /\ log[o][k].id = log[o][j].id
             /\ \/ log[o][k].ev = "continue_walk"
                \/ (log[o][k].ev = "yield_err" /\ log[o][k].err = "Loading")

\* the consumer holds one chunk of the flat file and is not pulling: one
\* fetch was made although two more links are pending
C6_Witness ==
  /\ pc[1] = "YieldChunk" /\ ~pulling[1]
  /\ Root(1) = 3 /\ range[1] = None
  /\ Len(Oks(1)) = 1
  /\ Len(Unwrap(next_visit[1]).pending) = 2
  /\ Count(1, "get_block") = 1

(***************************************************************************)
(* C7.  At most one get_block is outstanding in an operation, and between  *)
(* two successive get_block calls the first has completed and its block    *)
(* has been applied by continue_walk.                                      *)
(***************************************************************************)
C7_OneFetchInFlight ==
  \A o \in Ops :
    /\ Cardinality(inflight[o]) + (IF got[o] # None THEN 1 ELSE 0) <= 1
    /\ inflight[o] # {} => (pc[o] = "Await" /\ inflight[o] = {next[o]})
    /\ got[o] # None => (pc[o] = "Await" /\ Unwrap(got[o]).cid = next[o])
    /\ \A j1, j2 \in At(o, "get_block") :
         j1 < j2 =>
           \E d, w \in DOMAIN log[o] :
             /\ j1 < d /\ d < w /\ w < j2
             /\ log[o][d] = Call_("get_block_done", log[o][j1].id)
             /\ log[o][w] = Call_("continue_walk", log[o][j1].id)

\* the second fetch of an operation is outstanding
C7_Witness ==
  /\ pc[1] = "Await"
  /\ Count(1, "get_block") = 2
  /\ Count(1, "continue_walk") = 1
  /\ inflight[1] = {next[1]}

(***************************************************************************)
(* C8.  The starting point is a path and the Resolver fails: the setup     *)
(* call returns Err(Resolving), no stream exists, and neither start nor    *)
(* get_block is called.                                                    *)
(***************************************************************************)
C8_ResolvingError ==
  \A o \in Ops :
    (starting_point[o].kind = "path" /\ Root(o) \notin store) =>
      /\ pc[o] \in {"Unused", "Init", "Resolving", "SetupErr", "Dropped"}
      /\ ret[o] # None =>
           (pc[o] = "SetupErr" /\
            ret[o] = Some([ok |-> FALSE, err |-> "Resolving", id |-> Root(o)]))
      /\ Count(o, "resolve") = 0 => pc[o] \in {"Unused", "Init"}
      /\ Count(o, "start") = 0
      /\ Count(o, "get_block") = 0
      /\ Items(o) = <<>>

\* the setup call has returned the Resolving error
C8_Witness ==
  /\ starting_point[1].kind = "path" /\ Root(1) \notin store
  /\ pc[1] = "SetupErr"
  /\ Unwrap(ret[1]).err = "Resolving"
  /\ Count(1, "resolve") = 1

(***************************************************************************)
(* C9.  The leading chunk.                                                 *)
(***************************************************************************)
\* the chunk start returns for the root block of o
LeadingChunk(o) == maybe_target_slice(Blocks[Root(o)].data, 0, range[o])

\* an item that is the captured leading chunk
IsLead(e) == IsOk(e) /\ e.id = 0

StreamReturned(o) == ret[o] # None /\ Unwrap(ret[o]).ok

\* position in the log of the first item delivered (0: none yet)
FirstItemAt(o) ==
  IF Items(o) = <<>> THEN 0
  ELSE CHOOSE i \in DOMAIN log[o] :
         IsItem(log[o][i]) /\ \A j \in 1 .. (i - 1) : ~IsItem(log[o][j])

\* get_block calls made before the first item
FetchesBeforeFirstItem(o) ==
  Cardinality({j \in At(o, "get_block") : j < FirstItemAt(o)})

\* a non-empty leading chunk is the first item, once, before any fetch
LeadingFirst(o) ==
  LeadingChunk(o) # <<>> =>
    /\ Len(SelectSeq(log[o], IsLead)) <= 1
    /\ Count(o, "pull") >= 1 => Items(o) # <<>>
    /\ Items(o) # <<>> =>
         /\ Items(o)[1] = YieldOk(LeadingChunk(o), ChunkOff(0, range[o]), 0)
         /\ FetchesBeforeFirstItem(o) = 0

\* C9 as stated: with an empty leading chunk there is no leading item and
\* the first item originates from the first continue_walk step
C9_Original ==
  \A o \in Ops :
    StreamReturned(o) =>
      /\ LeadingFirst(o)
      /\ LeadingChunk(o) = <<>> =>
           /\ SelectSeq(log[o], IsLead) = <<>>
           /\ Items(o) # <<>> => FetchesBeforeFirstItem(o) = 1

\* C9 amended: with an empty leading chunk there is no leading item and the
\* first item originates from a (fetch, continue_walk) step, the first one
\* that returns a non-empty chunk or fails: it follows at least one
\* get_block and stems from the block asked for last
C9_Amended ==
  \A o \in Ops :
    StreamReturned(o) =>
      /\ LeadingFirst(o)
      /\ LeadingChunk(o) = <<>> =>
           /\ SelectSeq(log[o], IsLead) = <<>>
           /\ Items(o) # <<>> =>
                /\ FetchesBeforeFirstItem(o) >= 1
                /\ \E j \in At(o, "get_block") :
                     /\ j < FirstItemAt(o)
                     /\ \A j2 \in At(o, "get_block") : j2 < FirstItemAt(o) => j2 <= j
                     /\ Items(o)[1].id = log[o][j].id
                /\ \A i \in 1 .. (FetchesBeforeFirstItem(o) - 1) :
                     ExpectedChunks(o, i)[i + 1] = <<>>

\* the first item of the nested file stems from its second step
C9_Witness ==
  /\ StreamReturned(1)
  /\ Root(1) = 7
  /\ LeadingChunk(1) = <<>>
  /\ Items(1) # <<>> /\ IsOk(Items(1)[1])
  /\ FetchesBeforeFirstItem(1) = 2

(***************************************************************************)
(* C10.  Two operations with the same starting point and range, against    *)
(* the same block store, deliver the same items: at any time the items of  *)
(* one are a prefix of the items of the other, the setup calls return the  *)
(* same, and streams that both reached their end delivered identical       *)
(* sequences.                                                              *)
(***************************************************************************)
AtEnd(o) == pc[o] \in {"Done", "YieldLoadErr", "YieldWalkErr"}

C10_Deterministic ==
  (starting_point[1] = starting_point[2] /\ range[1] = range[2]
     /\ pc[1] # "Unused" /\ pc[2] # "Unused") =>
    /\ IsPrefix(Items(1), Items(2)) \/ IsPrefix(Items(2), Items(1))
    /\ (ret[1] # None /\ ret[2] # None) => ret[1] = ret[2]
    /\ (AtEnd(1) /\ AtEnd(2)) => (Items(1) = Items(2) /\ Errs(1) = Errs(2))

\* both streams ended, each after two chunks and the same terminal error
C10_Witness ==
  /\ pc[1] = "Done" /\ pc[2] = "Done"
  /\ Len(Oks(1)) = 2 /\ Len(Errs(1)) = 1
  /\ Items(1) = Items(2)

(***************************************************************************)
(* C11.  Concurrent operations are independent.                            *)
(***************************************************************************)
\* the items of the steps of a walk that runs alone from VisitorState v
RECURSIVE SoloSteps(_)
SoloSteps(v) ==
  IF v = None THEN <<>>
  ELSE LET id == pending_links(Unwrap(v))
           b  == get_block(store, corrupt, id)
           r  == continue_walk(Unwrap(v), b.data, None)
       IN IF ~b.ok THEN <<YieldErr("Loading", id)>>
          ELSE IF ~r.ok THEN <<YieldErr("Walking", id)>>
          ELSE (IF r.bytes # <<>> THEN <<YieldOk(r.bytes, r.off, id)>> ELSE <<>>)
                 \o SoloSteps(r.visit)

\* the items operation o delivers when it runs alone and is pulled to its end
SoloItems(o) ==
  LET i == IF range[o] # None
           THEN with_target_range(IdleFileVisit_default, Unwrap(range[o]))
           ELSE IdleFileVisit_default
      r == start(i, StoreData(store, corrupt, Root(o)))
  IN IF ~r.ok THEN <<>>
     ELSE (IF r.bytes # <<>>
           THEN <<YieldOk(r.bytes, ChunkOff(0, range[o]), 0)>> ELSE <<>>)
            \o SoloSteps(r.visit)

\* under every interleaving an operation delivers the items of its solo run
SoloRun ==
  \A o \in Ops :
    /\ IsPrefix(Items(o), SoloItems(o))
    /\ AtEnd(o) => Items(o) = SoloItems(o)

\* a step of one operation leaves the locals of every other operation,
\* their VisitorState and DecodeCache included, as they were
OwnLocalsOnly ==
  \E o \in Ops : \A p \in Ops \ {o} : Local(p)' = Local(p)

\* C11: each of the concurrent operations yields exactly the item sequence
\* it yields when run alone, and no step of one operation touches the
\* VisitorState or DecodeCache of another
C11_Independent == []SoloRun /\ [][OwnLocalsOnly]_vars

\* both operations, on different files, wait for a block at the same time,
\* each after items of its own
C11_Witness ==
  /\ pc[1] = "Await" /\ pc[2] = "Await"
  /\ Root(1) = 7 /\ Root(2) = 12
  /\ Len(Oks(1)) = 2 /\ Len(Oks(2)) = 1 /\ range[2] # None
  /\ inflight[1] = {11} /\ inflight[2] = {13}

(***************************************************************************)
(* C12.  The stream does no work unless polled: every pending_links,       *)
(* get_block and continue_walk call lies inside a pull that has not yet    *)
(* delivered its item, so none happens between the return of the setup     *)
(* call and the first pull, nor between an item and the next pull.         *)
(***************************************************************************)
WorkCalls == {"pending_links", "get_block", "continue_walk"}
Deliveries == {"yield_ok", "yield_err", "end", "drop"}

C12_LazyStream ==
  \A o \in Ops :
    /\ \A j \in DOMAIN log[o] :
         log[o][j].ev \in WorkCalls =>
           \E i \in At(o, "pull") :
             /\ i < j
             /\ \A k \in (i + 1) .. (j - 1) : log[o][k].ev \notin Deliveries
    /\ pc[o] = "Created" =>
         /\ \A j \in DOMAIN log[o] : log[o][j].ev \notin WorkCalls
         /\ inflight[o] = {} /\ got[o] = None /\ Items(o) = <<>>
    /\ pc[o] \in Suspended => log[o][Len(log[o])].ev \notin WorkCalls

\* the stream of a file with pending links was returned and is not polled:
\* nothing has been asked of the walk or the block store
C12_Witness ==
  /\ pc[1] = "Created"
  /\ visit[1] # None
  /\ Root(1) = 7
  /\ Count(1, "pending_links") = 0 /\ Count(1, "get_block") = 0

(***************************************************************************)
(* C13.  Each step yields zero or one chunk, one exactly when the chunk    *)
(* continue_walk returned is non-empty; no Ok chunk is empty; there are    *)
(* never more Ok chunks than blocks decoded (the root and the fetched      *)
(* blocks given to continue_walk).  The flat file of {10, 10, 5} bytes     *)
(* read with range [5, 20) delivers at most 3 chunks, in order, of 15      *)
(* bytes in total.                                                         *)
(***************************************************************************)
\* the n-th continue_walk call of o is at position w of its log
NthWalk(o, w) == Cardinality({x \in At(o, "continue_walk") : x <= w})

C13_ChunkPerStep ==
  \A o \in Ops :
    /\ \A i \in DOMAIN Oks(o) : Oks(o)[i].bytes # <<>>
    /\ Len(Oks(o)) <= Count(o, "start") + Count(o, "continue_walk")
    /\ \A w \in At(o, "continue_walk") :
         log[o][w].id \notin corrupt =>
           LET chunk == ExpectedChunks(o, NthWalk(o, w))[NthWalk(o, w) + 1]
           IN /\ chunk # <<>> =>
                   (IsOk(log[o][w + 1]) /\ log[o][w + 1].bytes = chunk)
              /\ chunk = <<>> => ~IsItem(log[o][w + 1])
              /\ w + 2 <= Len(log[o]) => ~IsItem(log[o][w + 2])
    /\ (Root(o) = 3 /\ range[o] = Some(<<5, 20>>)) =>
         /\ Len(Oks(o)) <= 3
         /\ Len(Concat(Oks(o))) <= 15
         /\ CleanEnd(o) =>
              (Len(Concat(Oks(o))) = 15 /\
               Concat(Oks(o)) = SubSeq(Content(3), 6, 20))

\* the nested file read whole: four blocks decoded, three chunks
C13_Witness ==
  /\ CleanEnd(1)
  /\ Root(1) = 7 /\ range[1] = None
  /\ Count(1, "continue_walk") = 4
  /\ Len(Oks(1)) = 3

(***************************************************************************)
(* C14.  The root block is not a recognized file encoding.                 *)
(***************************************************************************)
\* the root block, resolved from the path or handed in, is no file encoding
NotAFile(o) ==
  /\ Blocks[Root(o)].kind # "file"
  /\ starting_point[o].kind = "path" => Root(o) \in store

SetupReturned(o) == ret[o] # None

\* C14 as stated: for a path and for an already-resolved root block alike,
\* the setup call returns Err(Path) and no stream is produced
C14_Original ==
  \A o \in Ops :
    (NotAFile(o) /\ SetupReturned(o)) =>
      /\ pc[o] = "SetupErr"
      /\ Unwrap(ret[o]).err = "Path"

\* C14 amended: when the starting point is a path that resolves to a block
\* that is no file encoding, the setup call returns Err(Path); when it is an
\* already-resolved root block that is no file encoding, the setup call
\* returns Err(Walking(rootId, err)) from start; in both cases no stream is
\* produced and no block is fetched
C14_Amended ==
  \A o \in Ops :
    (NotAFile(o) /\ SetupReturned(o)) =>
      /\ pc[o] = "SetupErr"
      /\ starting_point[o].kind = "path" =>
           /\ Unwrap(ret[o]).err = "Path"
           /\ Count(o, "start") = 0
      /\ starting_point[o].kind = "block" =>
           /\ ret[o] = Some([ok |-> FALSE, err |-> "Walking", id |-> Root(o)])
           /\ Count(o, "resolve") = 0
      /\ Items(o) = <<>> /\ Count(o, "get_block") = 0

\* a path resolved to the block that is no file: Err(Path)
C14_Witness ==
  /\ NotAFile(1) /\ starting_point[1].kind = "path"
  /\ pc[1] = "SetupErr"
  /\ Unwrap(ret[1]).err = "Path"

(***************************************************************************)
(* C15.  start fails on the bytes of the root block: the setup call        *)
(* returns Err(Walking(rootId, err)) with the identifier of the root       *)
(* block, no stream is produced and no get_block is made; and the range    *)
(* is applied before start: what start returned is what it returns for     *)
(* the visit with the range set.                                           *)
(***************************************************************************)
\* the visit operation o hands to start
RangedVisit(o) ==
  IF range[o] # None
  THEN with_target_range(IdleFileVisit_default, Unwrap(range[o]))
  ELSE IdleFileVisit_default

StartFails(o) ==
  /\ Count(o, "start") >= 1
  /\ ~start(RangedVisit(o), StoreData(store, corrupt, Root(o))).ok

C15_StartError ==
  \A o \in Ops :
    /\ StartFails(o) =>
         /\ pc[o] = "SetupErr"
         /\ ret[o] = Some([ok |-> FALSE, err |-> "Walking", id |-> Root(o)])
         /\ Count(o, "get_block") = 0 /\ Count(o, "pending_links") = 0
         /\ Items(o) = <<>>
    /\ pc[o] = "Created" =>
         LET r == start(RangedVisit(o), StoreData(store, corrupt, Root(o)))
         IN /\ visit[o] = r.visit
            /\ bytes[o] = (IF r.bytes # <<>> THEN Some(r.bytes) ELSE None)
            /\ visit[o] # None => Unwrap(visit[o]).range = range[o]

\* a resolved root block whose bytes do not decode
C15_Witness ==
  /\ StartFails(1)
  /\ Root(1) = 3 /\ 3 \in corrupt /\ starting_point[1].kind = "path"
  /\ Unwrap(ret[1]).err = "Walking"

(***************************************************************************)
(* C16.  A get_block fails mid-stream: the stream yields                   *)
(* Err(Loading(childId, err)) with the identifier that was requested as    *)
(* its one terminal item, and no get_block follows: the fetch is not       *)
(* retried and no other block is fetched.                                  *)
(***************************************************************************)
\* positions of the log where a get_block completed with an error
FailedAt(o) == {d \in At(o, "get_block_done") : log[o][d].id \notin store}

C16_LoadingError ==
  \A o \in Ops :
    \A d \in FailedAt(o) :
      /\ log[o][d - 1] = Call_("get_block", log[o][d].id)
      /\ \A j \in At(o, "get_block") : j < d
      /\ \A j \in At(o, "pending_links") : j < d
      /\ d < Len(log[o]) =>
           \/ log[o][d + 1].ev = "drop"
           \/ /\ log[o][d + 1] = YieldErr("Loading", log[o][d].id)
              /\ Errs(o) = <<YieldErr("Loading", log[o][d].id)>>
              /\ \A k \in (d + 2) .. Len(log[o]) : ~IsItem(log[o][k])

\* the second fetch failed, its error was delivered and the stream ended
C16_Witness ==
  /\ pc[1] = "Done"
  /\ FailedAt(1) # {}
  /\ Count(1, "get_block") = 2
  /\ Errs(1) = <<YieldErr("Loading", next[1])>>

(***************************************************************************)
(* C17.  continue_walk fails on a fetched block: the stream yields         *)
(* Err(Walking(blockId, err)) with the identifier of that block as its one *)
(* terminal item, yields no chunk of that step, and calls pending_links,   *)
(* get_block and continue_walk no more.                                    *)
(***************************************************************************)
\* positions of the log where continue_walk was given bytes it rejects
BadWalkAt(o) == {w \in At(o, "continue_walk") : log[o][w].id \in corrupt}

C17_WalkingError ==
  \A o \in Ops :
    \A w \in BadWalkAt(o) :
      /\ \E d \in At(o, "get_block_done") :
           d < w /\ log[o][d].id = log[o][w].id /\ log[o][d].id \in store
      /\ Len(log[o]) > w
      /\ log[o][w + 1] = YieldErr("Walking", log[o][w].id)
      /\ Errs(o) = <<YieldErr("Walking", log[o][w].id)>>
      /\ \A k \in (w + 2) .. Len(log[o]) :
           /\ ~IsItem(log[o][k])
           /\ log[o][k].ev \notin WorkCalls

\* a block of the nested file did not decode: one chunk, then the error,
\* then the end
C17_Witness ==
  /\ pc[1] = "Done"
  /\ BadWalkAt(1) # {}
  /\ Root(1) = 7
  /\ Len(Oks(1)) = 1
  /\ Errs(1) = <<YieldErr("Walking", 10)>>

(***************************************************************************)
(* C18.  Every get_block asks for exactly the identifier pending_links     *)
(* returned on the current VisitorState, so the identifiers fetched follow *)
(* the traversal order, one at a time; and every block fetched is given    *)
(* to exactly one continue_walk before the next pending_links.             *)
(***************************************************************************)
\* the VisitorState after start and n steps of the walk
RECURSIVE StepVisit(_, _)
StepVisit(v, n) ==
  IF n = 0 \/ v = None THEN v
  ELSE StepVisit(continue_walk(Unwrap(v), Blocks[pending_links(Unwrap(v))],
                               None).visit, n - 1)

VisitAfter(o, n) == StepVisit(start(RangedVisit(o), Blocks[Root(o)]).visit, n)

\* depth-first, left-to-right order of the links that overlap the range
RECURSIVE Preorder(_, _, _)
Preorder(ls, base, rng) ==
  IF ls = <<>> THEN <<>>
  ELSE LET h == Head(ls) IN
    (IF block_is_in_target_range(base, base + Size(h), rng)
     THEN <<h>> \o Preorder(Blocks[h].links, base + Len(Blocks[h].data), rng)
     ELSE <<>>)
      \o Preorder(Tail(ls), base + Size(h), rng)

TraversalOrder(o) ==
  Preorder(Blocks[Root(o)].links, Len(Blocks[Root(o)].data), range[o])

\* the identifiers of the events of one kind, in log order
RECURSIVE IdsOf(_, _)
IdsOf(lg, ev) ==
  IF lg = <<>> THEN <<>>
  ELSE (IF Head(lg).ev = ev THEN <<Head(lg).id>> ELSE <<>>) \o IdsOf(Tail(lg), ev)

C18_FetchOrder ==
  \A o \in Ops :
    /\ \A j \in At(o, "get_block") :
         log[o][j - 1] = Call_("pending_links", log[o][j].id)
    /\ \A j \in At(o, "pending_links") :
         LET n == Cardinality({x \in At(o, "pending_links") : x < j})
         IN /\ log[o][j].id = pending_links(Unwrap(VisitAfter(o, n)))
            /\ log[o][j + 1] = Call_("get_block", log[o][j].id)
            /\ Cardinality({w \in At(o, "continue_walk") : w < j}) = n
    /\ IsPrefix(IdsOf(log[o], "get_block"), TraversalOrder(o))
    /\ IsPrefix(IdsOf(log[o], "continue_walk"), IdsOf(log[o], "get_block"))
    /\ \A w \in At(o, "continue_walk") :
         log[o][w - 1] = Call_("get_block_done", log[o][w].id)

\* the four blocks of the nested file were fetched in traversal order
C18_Witness ==
  /\ Root(1) = 7 /\ range[1] = None
  /\ IdsOf(log[1], "get_block") = <<8, 9, 10, 11>>
  /\ IdsOf(log[1], "continue_walk") = <<8, 9, 10, 11>>

(***************************************************************************)
(* C19.  At most one VisitorState is current; each continue_walk consumes  *)
(* it and the returned state takes its place; once none remains the        *)
(* stream ends cleanly after the pending non-empty chunk, with no further  *)
(* pending_links or get_block: a file whose start returns no VisitorState  *)
(* is streamed with zero get_block calls.                                  *)
(***************************************************************************)
C19_OneVisitorState ==
  \A o \in Ops :
    LET n == Count(o, "continue_walk") IN
      /\ ~(visit[o] # None /\ next_visit[o] # None)
      /\ pc[o] \in {"Created", "YieldLead"} => visit[o] = VisitAfter(o, 0)
      /\ pc[o] = "Await" =>
           (visit[o] # None /\ visit[o] = VisitAfter(o, n) /\ next_visit[o] = None)
      /\ pc[o] = "YieldChunk" =>
           (visit[o] = None /\ next_visit[o] = VisitAfter(o, n))
      /\ (StreamReturned(o) /\ BadWalkAt(o) = {} /\ VisitAfter(o, n) = None) =>
           /\ Count(o, "pending_links") = n /\ Count(o, "get_block") = n
           /\ Errs(o) = <<>>
           /\ pc[o] \in {"Created", "YieldLead", "YieldChunk", "Done", "Dropped"}
           /\ pc[o] = "Done" =>
                [i \in DOMAIN Oks(o) |-> Oks(o)[i].bytes]
                  = SelectSeq(ExpectedChunks(o, n), NonEmpty)
      /\ CleanEnd(o) => VisitAfter(o, n) = None

\* the single-block file: its chunk, then the clean end, and no fetch
C19_Witness ==
  /\ CleanEnd(1)
  /\ Root(1) = 2
  /\ VisitAfter(1, 0) = None
  /\ Len(Oks(1)) = 1
  /\ Count(1, "get_block") = 0

(***************************************************************************)
(* C20.  If the consumer keeps pulling and every get_block completes, the  *)
(* stream reaches a terminal state, a clean end or a terminal Err item     *)
(* (unless the consumer drops it); no pull waits forever; and the loop     *)
(* makes one fetch per iteration, at most as many as the walk has steps.   *)
(***************************************************************************)
Terminated(o) == pc[o] = "Done" \/ Errs(o) # <<>>

\* the loop makes one fetch per iteration, at most as many as the walk has
\* steps
BoundedWalk ==
  \A o \in Ops :
    /\ Count(o, "get_block") <= Len(TraversalOrder(o))
    /\ Count(o, "pending_links") = Count(o, "get_block")

C20_Terminates ==
  /\ []BoundedWalk
  /\ (pc[1] \in HasStream) ~> (Terminated(1) \/ pc[1] = "Dropped")
  /\ pulling[1] ~> ~pulling[1]

\* the nested file was pulled to its clean end through four fetches
C20_Witness ==
  /\ CleanEnd(1)
  /\ Root(1) = 7
  /\ Count(1, "get_block") = 4
  /\ Count(1, "pull") = 4
  /\ endPolls[1] = 0

====
